---- MODULE Spec2Model ----
(***************************************************************************)
(* Apsara backend: the tool registry and executor (backend/tools.js) and   *)
(* the per-connection modality/session bridge and message relay            *)
(* (backend/server.js), as a state machine.                                *)
(***************************************************************************)
EXTENDS Integers, Sequences, FiniteSets, TLC

(***************************************************************************)
(* Bounds of the model.                                                    *)
(***************************************************************************)
\* set_modality frames that start a switch, per client connection
MaxSwitches == 2
\* tool calls executed, per run
MaxCalls == 3
\* upstream events that carry tool calls, per run
MaxEvents == 2
\* set_modality frames that start a switch while the registry is being updated
MaxSessionSwitches == 1
\* changes of the dropdown states of the widget, per run
MaxDropdownEvents == 3

(***************************************************************************)
(* The tool registry (tools.js).                                           *)
(***************************************************************************)
\* The function declarations in the order getToolDeclarations pushes them.
DeclOrder ==
    << "send_email_to_shubharthak", "take_screenshot", "copy_to_clipboard",
       "get_clipboard_text", "paste_from_clipboard", "store_memory",
       "retrieve_memories", "clear_memories", "read_file", "browse_files",
       "create_file", "edit_file", "move_file", "rename_file", "delete_file",
       "open_url", "fill_form", "click_element" >>

\* The keys of ENABLED_TOOLS.
ToolIds == {"googleSearch"} \cup {DeclOrder[k] : k \in 1..Len(DeclOrder)}

\* ENABLED_TOOLS as the module is loaded: everything but googleSearch is off.
DefaultEnabledTools == [t \in ToolIds |-> t = "googleSearch"]

\* TOOL_METADATA[key].async, copied into toolAsyncSettings at load.
DefaultAsyncSettings ==
    [t \in ToolIds |->
        t \notin {"googleSearch", "get_clipboard_text", "retrieve_memories",
                  "read_file", "browse_files"}]

VARIABLES
    ENABLED_TOOLS,        \* tools.js: tool id -> enabled flag
    toolAsyncSettings,    \* tools.js: tool id -> async flag
    memoryStore,          \* tools.js: the in-memory array of memories
    memoryFile,           \* apsara-memory.json: the array last written to it
    lastScreenshotData,   \* tools.js: the one-slot screenshot cache
    fileSystem,           \* the absolute paths of the regular files on disk
    nCalls,               \* executeTool calls made so far
    lastDecl,             \* the most recent list returned by getToolDeclarations
    currentModality,      \* server.js: per-connection modality variable
    geminiWs,             \* server.js: per-connection upstream handle
    pc,                   \* position of each connectToGemini / set_modality task
    requested,            \* message.modality of the frame that started the task
    oldModality,          \* oldModality captured by the set_modality handler
    cfgTools,             \* config.tools computed by the task
    sessOpen,             \* upstream sessions that are open
    handlers,             \* the onmessage handlers of upstream events
    toolOrder,            \* tools.js: the custom order of the tool ids
    SYSTEM_PROMPT,        \* server.js: the system prompt of new sessions
    localStorage,         \* widget: the item 'apsara-enabled-tools'
    availableTools,       \* widget: the tools list it shows
    isConnected,          \* widget: the isConnected state
    isMicMuted,           \* widget: the isMicMuted state
    isMutedRef,           \* widget: isMutedRef.current
    wsRef,                \* widget: the socket to the backend and its state
    processorRef,         \* widget: the audio processor of the microphone
    clientWs,             \* server.js: the state of the client's socket
    showDropdown,         \* widget: the four show... states of its dropdowns
    collapseTimers,       \* widget: pending 250ms timers of the resize effect
    mainWindow,           \* electron.js: the main window and its bounds
    nDropdownEvents,      \* changes of the dropdown states so far
    lastStep              \* the handler or continuation that ran last, with
                          \* what it did: whether it forwarded the frame
                          \* upstream, the result of its executeTool call and
                          \* what that call handed out (the memories it
                          \* returned, the attachment of the mail it sent)

toolVars == << ENABLED_TOOLS, toolAsyncSettings >>
implVars == << memoryStore, memoryFile, lastScreenshotData, fileSystem >>
taskVars == << pc, requested, oldModality, cfgTools >>
bridgeVars == << currentModality, geminiWs, sessOpen >>
orderVars == << toolOrder, SYSTEM_PROMPT >>
panelVars == << localStorage, availableTools >>
callVars == << isConnected, isMicMuted, isMutedRef, wsRef, processorRef >>
widgetVars == << panelVars, callVars >>
windowVars == << showDropdown, collapseTimers, mainWindow, nDropdownEvents >>
extraVars == << orderVars, widgetVars, clientWs, windowVars >>
vars == << toolVars, implVars, nCalls, lastDecl, taskVars, bridgeVars,
           handlers, extraVars, lastStep >>

(***************************************************************************)
(* setEnabledTools and the declaration generator.                          *)
(***************************************************************************)
\* `key in ENABLED_TOOLS` and the flag is truthy.
IsEnabled(functionName) ==
    functionName \in DOMAIN ENABLED_TOOLS /\ ENABLED_TOOLS[functionName]

\* setEnabledTools: every key must exist, else it throws and nothing changes;
\* otherwise the new flags are spread over the old ones.
SetEnabledToolsThrows(newConfig) ==
    \E key \in DOMAIN newConfig : key \notin DOMAIN ENABLED_TOOLS

setEnabledTools(newConfig) ==
    IF SetEnabledToolsThrows(newConfig)
    THEN ENABLED_TOOLS
    ELSE [t \in DOMAIN ENABLED_TOOLS |->
            IF t \in DOMAIN newConfig THEN newConfig[t] ELSE ENABLED_TOOLS[t]]

\* addBehavior: the NON_BLOCKING marker is added when the async flag is set.
addBehavior(toolId) ==
    [name |-> toolId,
     behavior |-> IF toolAsyncSettings[toolId] THEN "NON_BLOCKING" ELSE "none"]

\* Mutant: the rename_file block tests the flag of move_file.
RECURSIVE PushDeclarations_WrongFlag(_)
PushDeclarations_WrongFlag(k) ==
    IF k = 0 THEN << >>
    ELSE IF IsEnabled(IF DeclOrder[k] = "rename_file"
                      THEN "move_file" ELSE DeclOrder[k])
         THEN Append(PushDeclarations_WrongFlag(k - 1), addBehavior(DeclOrder[k]))
         ELSE PushDeclarations_WrongFlag(k - 1)

\* The `if (ENABLED_TOOLS.x) functionDeclarations.push(...)` blocks, in order.
RECURSIVE PushDeclarations(_)
PushDeclarations(k) ==
    IF k = 0 THEN << >>
    ELSE IF IsEnabled(DeclOrder[k])
         THEN Append(PushDeclarations(k - 1), addBehavior(DeclOrder[k]))
         ELSE PushDeclarations(k - 1)

functionDeclarations == PushDeclarations(Len(DeclOrder))

\* Mutant: the functionDeclarations entry is pushed also when it is empty.
getToolDeclarations_NoLengthCheck ==
    (IF IsEnabled("googleSearch")
        THEN << [kind |-> "googleSearch", functionDeclarations |-> << >>] >>
        ELSE << >>)
    \o << [kind |-> "functionDeclarations",
           functionDeclarations |-> functionDeclarations] >>

\* getToolDeclarations: a googleSearch entry when it is enabled, then one entry
\* that holds all function declarations when there is any.
getToolDeclarations ==
    (IF IsEnabled("googleSearch")
        THEN << [kind |-> "googleSearch", functionDeclarations |-> << >>] >>
        ELSE << >>)
    \o
    (IF Len(functionDeclarations) > 0
        THEN << [kind |-> "functionDeclarations",
                 functionDeclarations |-> functionDeclarations] >>
        ELSE << >>)

\* The tool names a declaration list declares.
DeclaredNames(declarations) ==
    UNION { IF declarations[k].kind = "googleSearch"
            THEN {"googleSearch"}
            ELSE { declarations[k].functionDeclarations[j].name :
                     j \in 1..Len(declarations[k].functionDeclarations) } :
            k \in 1..Len(declarations) }

\* How many tools a declaration list declares.
RECURSIVE DeclaredCount(_)
DeclaredCount(declarations) ==
    IF declarations = << >> THEN 0
    ELSE (IF Head(declarations).kind = "googleSearch"
             THEN 1
             ELSE Len(Head(declarations).functionDeclarations))
         + DeclaredCount(Tail(declarations))

EnabledSet == {t \in DOMAIN ENABLED_TOOLS : ENABLED_TOOLS[t]}

(***************************************************************************)
(* The tool order, the async settings and the tools list.                  *)
(***************************************************************************)
\* Object.keys(ENABLED_TOOLS): the keys in the order they were written; the
\* spread of setEnabledTools keeps that order.
RegistryKeys == << "googleSearch" >> \o DeclOrder

\* toolOrder as the module is loaded.
DefaultToolOrder == RegistryKeys

\* Array.prototype.includes
Contains(array, key) == \E k \in 1..Len(array) : array[k] = key

\* getAllTools: the entries of toolOrder that are registry keys, as often as
\* toolOrder lists them, then the registry keys toolOrder does not list;
\* each with its flags and its index in this list as `order`.
AllKeys ==
    SelectSeq(toolOrder, LAMBDA key : key \in DOMAIN ENABLED_TOOLS)
    \o SelectSeq(RegistryKeys, LAMBDA key : ~Contains(toolOrder, key))

getAllTools ==
    [index \in 1..Len(AllKeys) |->
        [id |-> AllKeys[index],
         enabled |-> ENABLED_TOOLS[AllKeys[index]],
         async |-> toolAsyncSettings[AllKeys[index]],
         order |-> index - 1]]

\* setToolOrder: every entry must be a registry key, else it throws and
\* nothing changes; otherwise the array replaces toolOrder as it is.
SetToolOrderThrows(newOrder) ==
    \E k \in 1..Len(newOrder) : newOrder[k] \notin DOMAIN ENABLED_TOOLS

setToolOrder(newOrder) ==
    IF SetToolOrderThrows(newOrder) THEN toolOrder ELSE newOrder

\* setToolAsyncSettings: every key must be a registry key, else it throws;
\* otherwise the new flags are spread over the old ones.
SetToolAsyncSettingsThrows(asyncSettings) ==
    \E key \in DOMAIN asyncSettings : key \notin DOMAIN ENABLED_TOOLS

setToolAsyncSettings(asyncSettings) ==
    IF SetToolAsyncSettingsThrows(asyncSettings)
    THEN toolAsyncSettings
    ELSE [t \in DOMAIN toolAsyncSettings |->
            IF t \in DOMAIN asyncSettings THEN asyncSettings[t]
            ELSE toolAsyncSettings[t]]

\* generateSystemPrompt: the text is put together from the enabled flags
\* alone; it is written here as the set of flags it was generated from.
generateSystemPrompt(enabledTools) ==
    {t \in DOMAIN enabledTools : enabledTools[t]}

(***************************************************************************)
(* The modality/session bridge (server.js, wss.on('connection')).          *)
(***************************************************************************)
\* Task 0 is the initial connectToGemini('AUDIO'); tasks 1.. are the
\* set_modality handlers, each with the connectToGemini call it makes.
Tasks == 0..MaxSwitches
SwitchTasks == 1..MaxSwitches

\* geminiWs = null
NoSession == -1

\* message.modality of a set_modality frame: the two documented values, some
\* other string, and a frame without the field.
ModalityInputs == {"AUDIO", "TEXT", "VIDEO", "undefined"}

\* connectToGemini's parameter: the default 'AUDIO' applies to undefined.
ModalityParam(m) == IF m = "undefined" THEN "AUDIO" ELSE m

\* responseModalities: [Modality.AUDIO] for 'AUDIO', [Modality.TEXT] otherwise.
ResponseModality(m) == IF ModalityParam(m) = "AUDIO" THEN "AUDIO" ELSE "TEXT"

\* No executeTool call in the step.
NoCall == [name |-> "none", success |-> FALSE, error |-> "none", impl |-> "none"]

\* Nothing handed out: no memories returned, no mail sent, no frame sent to
\* the client.
NoPayload ==
    [memories |-> << >>, attachment |-> "no mail", toClient |-> << >>]

\* A step that forwards nothing upstream and executes no tool.
Step(kind) ==
    [kind |-> kind, forwarded |-> FALSE, result |-> NoCall, payload |-> NoPayload]

\* A step that sends frames to the client and nothing upstream.
StepSending(kind, frames) ==
    [kind |-> kind, forwarded |-> FALSE, result |-> NoCall,
     payload |-> [NoPayload EXCEPT !.toClient = frames]]

\* The handling of a frame; forwarded tells whether it was handed to
\* geminiWs.sendRealtimeInput / sendClientContent.
FrameStep(type, forwarded) ==
    [kind |-> type, forwarded |-> forwarded, result |-> NoCall,
     payload |-> NoPayload]

\* A step that ran executeTool, with the result it returned.
CallStep(result) ==
    [kind |-> "tool_call", forwarded |-> FALSE, result |-> result,
     payload |-> NoPayload]

\* The same, for a call that handed something out.
CallStepWith(result, payload) ==
    [kind |-> "tool_call", forwarded |-> FALSE, result |-> result,
     payload |-> payload]

\* The upstream events whose onmessage handler is modelled.
Events == 1..MaxEvents

\* No event has arrived for this handler yet.
NoHandler ==
    [phase |-> "idle", session |-> NoSession, calls |-> << >>, next |-> 1,
     responses |-> << >>]

\* The dropdown states of the widget: showResolutionMenu,
\* showCameraResolutionMenu, showThemeSelector, showToolsSelector.
Dropdowns == {"ResolutionMenu", "CameraResolutionMenu", "ThemeSelector",
              "ToolsSelector"}

\* `let mainWindow;` before the app is ready. expandedFrom is the history
\* of the window: the y it had when it was first expanded.
NoWindow ==
    [created |-> FALSE, isWindows |-> FALSE, y |-> 0, height |-> 0,
     everExpanded |-> FALSE, expandedFrom |-> 0]

\* localStorage.getItem of a key that was never set.
NoItem == [saved |-> FALSE, toolsState |-> << >>]

\* The files on disk when the backend starts.
InitialFiles == {"/home/u/notes.txt", "/home/u/todo.txt"}

Init ==
    /\ ENABLED_TOOLS = DefaultEnabledTools
    /\ toolAsyncSettings = DefaultAsyncSettings
    /\ memoryStore = << >>
    /\ memoryFile = << >>
    /\ lastScreenshotData = "null"
    /\ fileSystem = InitialFiles
    /\ nCalls = 0
    /\ lastDecl = << >>
    /\ currentModality = "AUDIO"
    /\ geminiWs = NoSession
    /\ pc = [i \in Tasks |-> IF i = 0 THEN "import" ELSE "idle"]
    /\ requested = [i \in Tasks |-> "AUDIO"]
    /\ oldModality = [i \in Tasks |-> "AUDIO"]
    /\ cfgTools = [i \in Tasks |-> << >>]
    /\ sessOpen = {}
    /\ handlers = [e \in Events |-> NoHandler]
    /\ toolOrder = DefaultToolOrder
    /\ SYSTEM_PROMPT = generateSystemPrompt(DefaultEnabledTools)
    /\ localStorage = NoItem
    /\ availableTools = << >>
    /\ isConnected = FALSE
    /\ isMicMuted = FALSE
    /\ isMutedRef = FALSE
    /\ wsRef = "null"
    /\ processorRef = "null"
    /\ clientWs = "open"
    /\ showDropdown = [d \in Dropdowns |-> FALSE]
    /\ collapseTimers = 0
    /\ mainWindow = NoWindow
    /\ nDropdownEvents = 0
    /\ lastStep = Step("connection")

\* The next free set_modality task.
NextTask == 1 + Cardinality({i \in SwitchTasks : pc[i] # "idle"})

\* set_modality: when the requested modality differs from the current one the
\* handler remembers the current one, marks the state SWITCHING and sleeps 300ms.
SetModalityAccepted(newModality) == newModality # currentModality

HandleSetModality(newModality) ==
    /\ NextTask <= MaxSwitches
    /\ IF SetModalityAccepted(newModality)
       THEN /\ oldModality' = [oldModality EXCEPT ![NextTask] = currentModality]
            /\ currentModality' = "SWITCHING"
            /\ requested' = [requested EXCEPT ![NextTask] = newModality]
            /\ pc' = [pc EXCEPT ![NextTask] = "delay300"]
            /\ lastStep' = Step("set_modality")
       ELSE /\ UNCHANGED << oldModality, currentModality, requested, pc >>
            /\ lastStep' = Step("set_modality_same")
    /\ UNCHANGED << toolVars, handlers, extraVars, implVars, nCalls, lastDecl, cfgTools, geminiWs,
                    sessOpen >>

\* After the 300ms: connectToGemini(newModality) runs to its first await. An
\* existing handle is closed and the task sleeps 500ms; with no handle it goes
\* on to the import. modality_changed is then sent to the client.
Timer300(i) ==
    /\ pc[i] = "delay300"
    /\ IF geminiWs # NoSession
       THEN /\ sessOpen' = sessOpen \ {geminiWs}
            /\ pc' = [pc EXCEPT ![i] = "close500"]
       ELSE /\ sessOpen' = sessOpen
            /\ pc' = [pc EXCEPT ![i] = "import"]
    /\ lastStep' = StepSending("timer300", << "modality_changed" >>)
    /\ UNCHANGED << toolVars, handlers, extraVars, implVars, nCalls, lastDecl, requested,
                    oldModality, cfgTools, currentModality, geminiWs >>

\* After the 500ms: geminiWs = null.
Close500(i) ==
    /\ pc[i] = "close500"
    /\ geminiWs' = NoSession
    /\ pc' = [pc EXCEPT ![i] = "import"]
    /\ lastStep' = Step("close500")
    /\ UNCHANGED << toolVars, handlers, extraVars, implVars, nCalls, lastDecl, requested,
                    oldModality, cfgTools, currentModality, sessOpen >>

\* Mutant: the declarations are computed once, when the module is loaded.
SessionTools_LoadTime ==
    << [kind |-> "googleSearch", functionDeclarations |-> << >>] >>

\* config.tools of a task: the declarations computed after the import.
SessionTools == getToolDeclarations

\* After `await import('@google/genai')`: the declarations and the config are
\* computed and ai.live.connect is called.
Import(i) ==
    /\ pc[i] = "import"
    /\ cfgTools' = [cfgTools EXCEPT ![i] = SessionTools]
    /\ pc' = [pc EXCEPT ![i] = "connect"]
    /\ lastStep' = Step("import")
    /\ UNCHANGED << toolVars, handlers, extraVars, implVars, nCalls, lastDecl, requested,
                    oldModality, bridgeVars >>

\* The modality variable after ai.live.connect has resolved.
ModalityAfterConnect(i) == ModalityParam(requested[i])

\* ai.live.connect resolves: onopen has sent the status frame to the client;
\* geminiWs = session; currentModality = modality.
ConnectSucceed(i) ==
    /\ pc[i] = "connect"
    /\ sessOpen' = sessOpen \cup {i}
    /\ geminiWs' = i
    /\ currentModality' = ModalityAfterConnect(i)
    /\ pc' = [pc EXCEPT ![i] = "done"]
    /\ lastStep' = StepSending("connected", << "status" >>)
    /\ UNCHANGED << toolVars, handlers, extraVars, implVars, nCalls, lastDecl, requested,
                    oldModality, cfgTools >>

\* The modality variable after the .catch of the set_modality handler.
ModalityAfterFailure(i) == oldModality[i]

\* The import or ai.live.connect rejects in a set_modality task: the .catch
\* falls back to oldModality. (A rejection of the initial connect is unhandled
\* and changes no variable of the connection, so it adds no state.)
ConnectFail(i) ==
    /\ i \in SwitchTasks
    /\ pc[i] \in {"import", "connect"}
    /\ currentModality' = ModalityAfterFailure(i)
    /\ pc' = [pc EXCEPT ![i] = "failed"]
    /\ lastStep' = Step("connect_failed")
    /\ UNCHANGED << toolVars, handlers, extraVars, implVars, nCalls, lastDecl, requested,
                    oldModality, cfgTools, geminiWs, sessOpen >>

(***************************************************************************)
(* The message relay (server.js, clientWs.on('message')).                  *)
(***************************************************************************)
\* Mutant: audio is rejected only in TEXT mode, not while switching.
AudioRejected_OnlyText == currentModality = "TEXT"

\* `if (currentModality !== 'AUDIO') return;` of the audio branch.
AudioRejected == currentModality # "AUDIO"

\* Mutant: the video branch without its SWITCHING check.
VideoRejected_NoCheck == FALSE

\* `if (currentModality === 'SWITCHING') return;` of the video branch.
VideoRejected == currentModality = "SWITCHING"

\* The same check of the camera branch.
CameraRejected == currentModality = "SWITCHING"

\* The same check of the text branch.
TextRejected == currentModality = "SWITCHING"

\* A frame of one of the four forwarded types: the branch is taken only with a
\* handle (`&& geminiWs`), and forwards unless its check rejects the frame.
HandleFrame(type, rejected) ==
    /\ lastStep' = FrameStep(type, geminiWs # NoSession /\ ~rejected)
    /\ UNCHANGED << toolVars, handlers, extraVars, implVars, nCalls, lastDecl, taskVars, bridgeVars >>

HandleAudio == HandleFrame("audio", AudioRejected)
HandleVideo == HandleFrame("video", VideoRejected)
HandleCamera == HandleFrame("camera", CameraRejected)
HandleText == HandleFrame("text", TextRejected)

\* interrupt: with a handle it is acknowledged to the client; nothing is
\* forwarded.
HandleInterrupt ==
    /\ lastStep' = StepSending("interrupt",
                               IF geminiWs # NoSession
                               THEN << "interrupted" >> ELSE << >>)
    /\ UNCHANGED << toolVars, handlers, extraVars, implVars, nCalls, lastDecl, taskVars, bridgeVars >>

\* Mutant: the catch of the message handler answers with an error frame.
MalformedReply_Error == << "error" >>

\* What the catch of the message handler sends to the client: it only logs.
MalformedReply == << >>

\* Client frames whose handling throws: data that JSON.parse rejects, and the
\* JSON value null, whose .type cannot be read.
MalformedData == {"not json", "null"}

\* A malformed frame: the exception is caught by the try/catch around the
\* whole handler.
HandleMalformed(data) ==
    /\ data \in MalformedData
    /\ lastStep' = StepSending("malformed", MalformedReply)
    /\ UNCHANGED << toolVars, handlers, extraVars, implVars, nCalls, lastDecl, taskVars,
                    bridgeVars >>

Next ==
    \/ \E m \in ModalityInputs : HandleSetModality(m)
    \/ \E i \in SwitchTasks : Timer300(i)
    \/ \E i \in SwitchTasks : Close500(i)
    \/ \E i \in Tasks : Import(i)
    \/ \E i \in Tasks : ConnectSucceed(i)
    \/ \E i \in SwitchTasks : ConnectFail(i)
    \/ HandleAudio
    \/ HandleVideo
    \/ HandleCamera
    \/ HandleText
    \/ HandleInterrupt

Spec == Init /\ [][Next]_vars

(***************************************************************************)
(* The tool executor (tools.js, executeTool) and the tools it dispatches   *)
(* to.                                                                     *)
(***************************************************************************)
\* fc.args of a tool call: an object with the fields the tool reads, or none.
NoArgs == [present |-> FALSE, content |-> "", category |-> ""]

ArgInputs ==
    {NoArgs,
     [present |-> TRUE, content |-> "buy milk", category |-> "shopping"],
     [present |-> TRUE, content |-> "call mom", category |-> "undefined"]}

\* Mutant: executeTool without the enabled-flag safety net.
ToolBlocked_NoSafetyNet(functionName) == FALSE

\* Names that every object inherits a truthy property for.
InheritedKeys == {"constructor"}

\* `if (!ENABLED_TOOLS[functionName])` of executeTool: the lookup is truthy
\* for an enabled tool and for an inherited property.
ToolBlocked(functionName) ==
    ~IsEnabled(functionName) /\ functionName \notin InheritedKeys

\* Mutant: the safety net throws instead of returning a result.
DisabledResult_Throws(functionName) == NoCall

\* The result of a blocked call.
DisabledResult(functionName) ==
    [name |-> functionName, success |-> FALSE,
     error |-> "Tool disabled by configuration", impl |-> "none"]

\* takeScreenshot: when the capture command succeeds and the file exists the
\* screenshot replaces the cached one; otherwise an error result is returned.
takeScreenshot(captured) ==
    /\ lastScreenshotData' = IF captured THEN "screenshot" ELSE lastScreenshotData
    /\ lastStep' = CallStep([name |-> "take_screenshot", success |-> captured,
                             error |-> IF captured THEN "none"
                                       ELSE "screenshot failed",
                             impl |-> "takeScreenshot"])
    /\ UNCHANGED << memoryStore, memoryFile, fileSystem >>

\* storeMemory: the entry is pushed and saveMemories rewrites the file; a write
\* error is caught inside saveMemories and only logged. content.substring of
\* the log line that follows throws when there is no content, and the catch
\* of storeMemory then returns an error result.
storeMemory(content, category, written) ==
    /\ memoryStore' = Append(memoryStore,
                             [content |-> content,
                              category |-> IF category = "undefined"
                                           THEN "general" ELSE category])
    /\ memoryFile' = IF written THEN memoryStore' ELSE memoryFile
    /\ lastStep' = CallStep([name |-> "store_memory",
                             success |-> content # "undefined",
                             error |-> IF content # "undefined" THEN "none"
                                       ELSE "TypeError",
                             impl |-> "storeMemory"])
    /\ UNCHANGED << lastScreenshotData, fileSystem >>

(***************************************************************************)
(* JavaScript strings, by their characters.                                *)
(***************************************************************************)
\* The characters of the strings that occur as contents, categories and
\* queries.
Chars(str) ==
    CASE str = "" -> << >>
      [] str = " " -> << " " >>
      [] str = "t" -> << "t" >>
      [] str = "T" -> << "T" >>
      [] str = "zz" -> << "z", "z" >>
      [] str = "Tea" -> << "T", "e", "a" >>
      [] str = "tax" -> << "t", "a", "x" >>
      [] str = "Work" -> << "W", "o", "r", "k" >>
      [] str = "work" -> << "w", "o", "r", "k" >>
      [] str = "home" -> << "h", "o", "m", "e" >>
      [] str = "general" -> << "g", "e", "n", "e", "r", "a", "l" >>
      [] str = "shopping" -> << "s", "h", "o", "p", "p", "i", "n", "g" >>
      [] str = "buy milk" -> << "b", "u", "y", " ", "m", "i", "l", "k" >>
      [] str = "call mom" -> << "c", "a", "l", "l", " ", "m", "o", "m" >>

LowerChar(c) == CASE c = "T" -> "t" [] c = "W" -> "w" [] OTHER -> c

\* String.prototype.toLowerCase
toLowerCase(chars) == [k \in 1..Len(chars) |-> LowerChar(chars[k])]

\* String.prototype.includes
includes(chars, searchChars) ==
    \E k \in 0..(Len(chars) - Len(searchChars)) :
        SubSeq(chars, k + 1, k + Len(searchChars)) = searchChars

\* String.prototype.trim
RECURSIVE trim(_)
trim(chars) ==
    IF chars = << >> THEN << >>
    ELSE IF Head(chars) = " " THEN trim(Tail(chars))
    ELSE IF chars[Len(chars)] = " " THEN trim(SubSeq(chars, 1, Len(chars) - 1))
    ELSE chars

\* Truthiness of an argument value; booleans, undefined and null are written
\* as "true", "false", "undefined", "null", and a string value in quotes.
Truthy(value) == value \notin {"undefined", "null", "false", "''"}

(***************************************************************************)
(* The mail tool.                                                          *)
(***************************************************************************)
\* sendEmailToShubharthak: the cached screenshot is attached when fileBase64
\* is one of the two placeholders, or is absent while a screenshot is cached;
\* with a placeholder and no cached screenshot the mail goes out without an
\* attachment. After a send that succeeded the cache is cleared. sent is
\* FALSE when initEmailTransporter or transporter.sendMail throws.
UsesLastScreenshot(fileBase64) ==
    \/ fileBase64 \in {"base64_encoded_screenshot_data", "use_last_screenshot"}
    \/ (fileBase64 = "undefined" /\ lastScreenshotData # "null")

\* Mutant: a placeholder with nothing cached is passed on as the content.
MailAttachment_KeepPlaceholder(fileBase64) ==
    IF UsesLastScreenshot(fileBase64) /\ lastScreenshotData # "null"
    THEN lastScreenshotData
    ELSE IF fileBase64 \in {"undefined", "base64_encoded_screenshot_data"}
         THEN "none" ELSE fileBase64

\* The content of the attachment of the mail, "none" without attachment.
MailAttachment(fileBase64) ==
    IF UsesLastScreenshot(fileBase64)
    THEN (IF lastScreenshotData # "null" THEN lastScreenshotData ELSE "none")
    ELSE IF fileBase64 = "undefined" THEN "none" ELSE fileBase64

\* Mutant: the cache is kept after the mail was sent.
CacheAfterSend_Kept == lastScreenshotData

\* `if (lastScreenshotData) lastScreenshotData = null` after sendMail.
CacheAfterSend == "null"

sendEmailToShubharthak(fileBase64, sent) ==
    /\ lastScreenshotData' = IF sent THEN CacheAfterSend ELSE lastScreenshotData
    /\ lastStep' =
          IF sent
          THEN CallStepWith([name |-> "send_email_to_shubharthak",
                             success |-> TRUE, error |-> "none",
                             impl |-> "sendEmailToShubharthak"],
                            [NoPayload EXCEPT
                                !.attachment = MailAttachment(fileBase64)])
          ELSE CallStep([name |-> "send_email_to_shubharthak",
                         success |-> FALSE, error |-> "send failed",
                         impl |-> "sendEmailToShubharthak"])
    /\ UNCHANGED << memoryStore, memoryFile, fileSystem >>

(***************************************************************************)
(* deleteFile.                                                             *)
(***************************************************************************)
\* Directories that exist.
Directories == {"/home/u"}

\* path.isAbsolute(filePath) ? filePath : path.resolve(filePath), with the
\* backend running in /home/u.
AbsolutePath(filePath) ==
    IF filePath = "todo.txt" THEN "/home/u/todo.txt" ELSE filePath

\* `if (!confirm)` of deleteFile; an absent confirm takes the default false.
DeleteRefused(confirm) == ~Truthy(confirm)

\* deleteFile: refused without confirmation; then the path must exist and be
\* a regular file; unlinked is FALSE when fs.unlinkSync throws.
deleteFile(filePath, confirm, unlinked) ==
    LET absolutePath == AbsolutePath(filePath)
        error ==
            IF DeleteRefused(confirm) THEN "Deletion requires confirmation"
            ELSE IF absolutePath \notin fileSystem \cup Directories
                 THEN "File not found"
            ELSE IF absolutePath \in Directories THEN "Path is not a file"
            ELSE IF ~unlinked THEN "unlink failed"
            ELSE "none"
    IN  /\ fileSystem' = IF error = "none" THEN fileSystem \ {absolutePath}
                         ELSE fileSystem
        /\ lastStep' = CallStep([name |-> "delete_file",
                                 success |-> error = "none", error |-> error,
                                 impl |-> "deleteFile"])
        /\ UNCHANGED << memoryStore, memoryFile, lastScreenshotData >>

(***************************************************************************)
(* The memory tools.                                                       *)
(***************************************************************************)
\* `!query || query.trim() === ''` of retrieveMemories; an absent query takes
\* the default ''.
NoQuery(query) == query = "undefined" \/ trim(Chars(query)) = << >>

\* The filter of retrieveMemories: the lower-cased content or category
\* includes the lower-cased query.
MemoryMatches(mem, query) ==
    \/ includes(toLowerCase(Chars(mem.content)), toLowerCase(Chars(query)))
    \/ includes(toLowerCase(Chars(mem.category)), toLowerCase(Chars(query)))

\* mem.content.toLowerCase() throws for an entry stored without content.
RetrieveThrows(query) ==
    /\ ~NoQuery(query)
    /\ \E k \in 1..Len(memoryStore) : memoryStore[k].content = "undefined"

\* The entries retrieveMemories selects (it returns their content, category
\* and date).
RetrieveResults(query) ==
    IF NoQuery(query) THEN memoryStore
    ELSE SelectSeq(memoryStore, LAMBDA mem : MemoryMatches(mem, query))

retrieveMemories(query) ==
    /\ lastStep' =
          IF RetrieveThrows(query)
          THEN CallStep([name |-> "retrieve_memories", success |-> FALSE,
                         error |-> "TypeError", impl |-> "retrieveMemories"])
          ELSE CallStepWith([name |-> "retrieve_memories", success |-> TRUE,
                             error |-> "none", impl |-> "retrieveMemories"],
                            [NoPayload EXCEPT
                                !.memories = RetrieveResults(query)])
    /\ UNCHANGED implVars

\* Mutant: the categories are compared as they are.
CategoryCleared_CaseSensitive(mem, category) == mem.category = category

\* The entries the filter of clearMemories drops.
CategoryCleared(mem, category) ==
    toLowerCase(Chars(mem.category)) = toLowerCase(Chars(category))

\* clearMemories: with a truthy category the entries of that category are
\* filtered out, otherwise all are; saveMemories then rewrites the file.
clearMemories(category, written) ==
    /\ memoryStore' =
          IF Truthy(category) /\ category # ""
          THEN SelectSeq(memoryStore,
                         LAMBDA mem : ~CategoryCleared(mem, category))
          ELSE << >>
    /\ memoryFile' = IF written THEN memoryStore' ELSE memoryFile
    /\ lastStep' = CallStep([name |-> "clear_memories", success |-> TRUE,
                             error |-> "none", impl |-> "clearMemories"])
    /\ UNCHANGED << lastScreenshotData, fileSystem >>

\* Mutant: executeTool without its try/catch: the promise rejects and no
\* result is returned.
Caught_Rethrow(functionName, message) == NoCall

\* The catch of executeTool: { success: false, error: error.message }.
Caught(functionName, message) ==
    [name |-> functionName, success |-> FALSE, error |-> message,
     impl |-> "none"]

\* The default branch of the switch.
UnknownResult(functionName) ==
    [name |-> functionName, success |-> FALSE, error |-> "Unknown function",
     impl |-> "none"]

\* The tool names executeTool is called with here: two tools with a case of
\* the switch, googleSearch (in the registry, no case of the switch) and
\* generate_image (not in this registry).
CallNames == {"take_screenshot", "store_memory", "googleSearch", "generate_image"}

\* The cases of the switch, among those called here, that read a field of
\* args.
ArgumentReaders ==
    {"store_memory", "retrieve_memories", "clear_memories",
     "send_email_to_shubharthak", "delete_file"}

\* executeTool(functionName, args): the safety net, then the switch inside the
\* try/catch. Reading a field of a missing args object throws, which the catch
\* turns into an error result.
ExecuteTool(functionName, args) ==
    /\ nCalls < MaxCalls
    /\ nCalls' = nCalls + 1
    /\ IF ToolBlocked(functionName)
       THEN /\ lastStep' = CallStep(DisabledResult(functionName))
            /\ UNCHANGED implVars
       ELSE IF functionName = "take_screenshot"
       THEN \E captured \in BOOLEAN : takeScreenshot(captured)
       ELSE IF functionName \in ArgumentReaders /\ ~args.present
       THEN /\ lastStep' = CallStep(Caught(functionName, "TypeError"))
            /\ UNCHANGED implVars
       ELSE CASE functionName = "store_memory" ->
                    \E written \in BOOLEAN :
                        storeMemory(args.content, args.category, written)
              [] functionName = "retrieve_memories" ->
                    retrieveMemories(args.query)
              [] functionName = "clear_memories" ->
                    \E written \in BOOLEAN :
                        clearMemories(args.category, written)
              [] functionName = "send_email_to_shubharthak" ->
                    \E sent \in BOOLEAN :
                        sendEmailToShubharthak(args.fileBase64, sent)
              [] functionName = "delete_file" ->
                    \E unlinked \in BOOLEAN :
                        deleteFile(args.filePath, args.confirm, unlinked)
              [] OTHER ->
                    /\ lastStep' = CallStep(UnknownResult(functionName))
                    /\ UNCHANGED implVars

\* onmessage of a live upstream session with a tool call: the call is executed
\* by executeTool.
ToolCall(s, functionName, args) ==
    /\ s \in sessOpen
    /\ ExecuteTool(functionName, args)
    /\ UNCHANGED << toolVars, handlers, extraVars, lastDecl, taskVars, bridgeVars >>

(***************************************************************************)
(* POST /api/tools/update (server.js) with a `tools` object.               *)
(***************************************************************************)
\* A request body's `tools` object with one key.
OneFlag(t, b) == [k \in {t} |-> b]

\* The `tools` objects sent while sessions are running.
SessionConfigs ==
    {OneFlag(t, b) : t \in {"take_screenshot", "store_memory"}, b \in BOOLEAN}
    \cup {OneFlag("generate_image", TRUE)}

\* A `tools` object with the same flag for each tool of a set.
Flags(tools, b) == [k \in tools |-> b]

\* The tools whose flags the registry checks toggle.
WideSample ==
    {"googleSearch", "take_screenshot", "store_memory", "move_file",
     "rename_file", "delete_file", "click_element"}

WideConfigs ==
    {OneFlag(t, b) : t \in WideSample, b \in BOOLEAN}
    \cup {[k \in {"move_file", "rename_file"} |-> TRUE],
          OneFlag("generate_image", TRUE)}

\* The setter of the handler that throws: the three setters run one after
\* the other, each only when its field is given, and the first throw ends
\* the try block.
UpdateThrowsAt(body) ==
    IF "tools" \in DOMAIN body /\ SetEnabledToolsThrows(body.tools)
    THEN "tools"
    ELSE IF "order" \in DOMAIN body /\ SetToolOrderThrows(body.order)
    THEN "order"
    ELSE IF "asyncSettings" \in DOMAIN body
            /\ SetToolAsyncSettingsThrows(body.asyncSettings)
    THEN "asyncSettings"
    ELSE "none"

\* The handler with the request body: setEnabledTools(tools),
\* setToolOrder(order), setToolAsyncSettings(asyncSettings), then the system
\* prompt is regenerated and the request answered with success. When a
\* setter throws, the catch answers with the error; what the setters before
\* it changed stays changed. Fields the handler does not read are ignored.
ApplyUpdate(body) ==
    /\ ENABLED_TOOLS' =
          IF "tools" \in DOMAIN body
          THEN setEnabledTools(body.tools) ELSE ENABLED_TOOLS
    /\ toolOrder' =
          IF "order" \in DOMAIN body /\ UpdateThrowsAt(body) # "tools"
          THEN setToolOrder(body.order) ELSE toolOrder
    /\ toolAsyncSettings' =
          IF "asyncSettings" \in DOMAIN body /\ UpdateThrowsAt(body) = "none"
          THEN setToolAsyncSettings(body.asyncSettings)
          ELSE toolAsyncSettings
    /\ SYSTEM_PROMPT' =
          IF UpdateThrowsAt(body) = "none"
          THEN generateSystemPrompt(ENABLED_TOOLS') ELSE SYSTEM_PROMPT

\* The request as a step: the response says success or carries the error.
PostToolsUpdate(body) ==
    /\ ApplyUpdate(body)
    /\ lastStep' = Step(IF UpdateThrowsAt(body) = "none"
                        THEN "tools_update" ELSE "tools_update_error")

\* A request with a `tools` object only.
UpdateTools(tools) ==
    /\ PostToolsUpdate([tools |-> tools])
    /\ UNCHANGED << implVars, nCalls, lastDecl, taskVars, bridgeVars,
                    handlers, widgetVars, clientWs, windowVars >>

\* A call of getToolDeclarations.
GetDeclarations ==
    /\ lastDecl' = getToolDeclarations
    /\ lastStep' = Step("get_declarations")
    /\ UNCHANGED << toolVars, handlers, extraVars, implVars, nCalls, taskVars, bridgeVars >>

\* The registry alone: updates and declaration calls.
NextTools ==
    \/ \E tools \in WideConfigs : UpdateTools(tools)
    \/ GetDeclarations

SpecTools == Init /\ [][NextTools]_vars

\* Sessions and registry updates together.
NextSession ==
    \/ \E m \in {"AUDIO", "TEXT"} :
          NextTask <= MaxSessionSwitches /\ HandleSetModality(m)
    \/ \E i \in SwitchTasks : Timer300(i)
    \/ \E i \in SwitchTasks : Close500(i)
    \/ \E i \in Tasks : Import(i)
    \/ \E i \in Tasks : ConnectSucceed(i)
    \/ \E i \in SwitchTasks : ConnectFail(i)
    \/ \E tools \in SessionConfigs : UpdateTools(tools)

SpecSession == Init /\ [][NextSession]_vars

\* The message handler with every kind of client frame, malformed ones
\* included, around one modality switch.
NextFrames ==
    \/ \E m \in {"AUDIO", "TEXT"} :
          NextTask <= MaxSessionSwitches /\ HandleSetModality(m)
    \/ \E i \in SwitchTasks : Timer300(i)
    \/ \E i \in SwitchTasks : Close500(i)
    \/ \E i \in Tasks : Import(i)
    \/ \E i \in Tasks : ConnectSucceed(i)
    \/ \E i \in SwitchTasks : ConnectFail(i)
    \/ HandleAudio
    \/ HandleVideo
    \/ HandleCamera
    \/ HandleText
    \/ HandleInterrupt
    \/ \E data \in MalformedData : HandleMalformed(data)

SpecFrames == Init /\ [][NextFrames]_vars

\* The first session of a connection, registry updates and the tool calls
\* that session makes.
NextCalls ==
    \/ Import(0)
    \/ ConnectSucceed(0)
    \/ \E tools \in SessionConfigs : UpdateTools(tools)
    \/ \E s \in Tasks, f \in CallNames, args \in ArgInputs : ToolCall(s, f, args)

SpecCalls == Init /\ [][NextCalls]_vars

(***************************************************************************)
(* onmessage of an upstream session (server.js): the tool-call loop and    *)
(* the relay to the client.                                                *)
(***************************************************************************)
\* The function calls upstream events carry: fc.id, fc.name, fc.args.
ScreenshotCall == [id |-> "fc-a", name |-> "take_screenshot", args |-> NoArgs]

SecondScreenshotCall ==
    [id |-> "fc-b", name |-> "take_screenshot", args |-> NoArgs]

MemoryCall ==
    [id |-> "fc-c", name |-> "store_memory",
     args |-> [present |-> TRUE, content |-> "buy milk",
               category |-> "shopping"]]

ImageCall == [id |-> "fc-d", name |-> "generate_image", args |-> NoArgs]

\* message.toolCall.functionCalls of an event; empty without toolCall.
EventCalls ==
    { << >>, << ScreenshotCall >>, << ImageCall >>,
      << ScreenshotCall, MemoryCall >>, << MemoryCall, ScreenshotCall >>,
      << ScreenshotCall, SecondScreenshotCall >> }

\* The functionResponses entry sent for a call: its id and name, with the
\* result as the response.
FunctionResponse(fc) == [id |-> fc.id, name |-> fc.name]

\* An upstream event arrives on an open session: without tool calls the
\* gemini_message is sent to the client at once; otherwise the loop starts
\* executeTool for the first call and awaits it.
OnMessage(s, e, calls) ==
    /\ s \in sessOpen
    /\ handlers[e].phase = "idle"
    /\ \A d \in Events : d < e => handlers[d].phase # "idle"
    /\ handlers' =
          [handlers EXCEPT ![e] =
              [phase |-> IF calls = << >> THEN "relayed" ELSE "executing",
               session |-> s, calls |-> calls, next |-> 1,
               responses |-> << >>]]
    /\ lastStep' = StepSending("onmessage",
                               IF calls = << >> THEN << "gemini_message" >>
                               ELSE << >>)
    /\ UNCHANGED << toolVars, extraVars, implVars, nCalls, lastDecl, taskVars,
                    bridgeVars >>

\* Mutant: the loop is left after its first call.
LoopFinished_AfterFirst(e) == TRUE

\* The call being awaited is the last of message.toolCall.functionCalls.
LoopFinished(e) == handlers[e].next = Len(handlers[e].calls)

\* executeTool of the awaited call resolves: the tool response is sent
\* upstream; then the next call is started, or after the last one the
\* gemini_message is sent to the client.
ToolLoop(e) ==
    LET fc == handlers[e].calls[handlers[e].next]
    IN  /\ handlers[e].phase = "executing"
        /\ ExecuteTool(fc.name, fc.args)
        /\ handlers' =
              [handlers EXCEPT
                 ![e].responses = Append(@, FunctionResponse(fc)),
                 ![e].next = @ + 1,
                 ![e].phase = IF LoopFinished(e) THEN "relayed" ELSE @]
        /\ UNCHANGED << toolVars, extraVars, lastDecl, taskVars, bridgeVars >>

\* A session with registry updates and upstream events that carry tool calls.
NextRelay ==
    \/ Import(0)
    \/ ConnectSucceed(0)
    \/ \E b \in BOOLEAN :
          UpdateTools(Flags({"take_screenshot", "store_memory"}, b))
    \/ \E s \in Tasks, e \in Events, calls \in EventCalls :
          OnMessage(s, e, calls)
    \/ \E e \in Events : ToolLoop(e)

SpecRelay == Init /\ [][NextRelay]_vars

(***************************************************************************)
(* The executor with the screenshot, mail and file tools.                  *)
(***************************************************************************)
ExecTools == {"take_screenshot", "send_email_to_shubharthak", "delete_file"}

\* fc.args of a send_email_to_shubharthak call.
MailArgs ==
    {[present |-> FALSE, fileBase64 |-> "undefined"]}
    \cup {[present |-> TRUE, fileBase64 |-> f] :
            f \in {"undefined", "use_last_screenshot",
                   "base64_encoded_screenshot_data", "ZmlsZQ=="}}

\* fc.args of a delete_file call.
DeleteArgs ==
    {[present |-> FALSE, filePath |-> "undefined", confirm |-> "undefined"]}
    \cup {[present |-> TRUE, filePath |-> f, confirm |-> c] :
            f \in {"/home/u/notes.txt", "todo.txt", "/home/u",
                   "/home/u/gone.txt"},
            c \in {"undefined", "false", "true", "'false'"}}

\* Names that are no key of ENABLED_TOOLS.
UnknownNames == {"generate_image", "constructor"}

NextExec ==
    \/ \E b \in BOOLEAN : UpdateTools(Flags(ExecTools, b))
    \/ /\ ExecuteTool("take_screenshot", NoArgs)
       /\ UNCHANGED << toolVars, handlers, extraVars, lastDecl, taskVars, bridgeVars >>
    \/ \E args \in MailArgs :
          /\ ExecuteTool("send_email_to_shubharthak", args)
          /\ UNCHANGED << toolVars, handlers, extraVars, lastDecl, taskVars, bridgeVars >>
    \/ \E args \in DeleteArgs :
          /\ ExecuteTool("delete_file", args)
          /\ UNCHANGED << toolVars, handlers, extraVars, lastDecl, taskVars, bridgeVars >>
    \/ \E f \in UnknownNames, args \in ArgInputs :
          /\ ExecuteTool(f, args)
          /\ UNCHANGED << toolVars, handlers, extraVars, lastDecl, taskVars, bridgeVars >>

SpecExec == Init /\ [][NextExec]_vars

(***************************************************************************)
(* The executor with the memory tools, and restarts of the backend.        *)
(***************************************************************************)
MemoryTools == {"store_memory", "retrieve_memories", "clear_memories"}

\* fc.args of a store_memory call.
StoreArgs ==
    {NoArgs,
     [present |-> TRUE, content |-> "Tea", category |-> "Work"],
     [present |-> TRUE, content |-> "tax", category |-> "work"],
     [present |-> TRUE, content |-> "Tea", category |-> "undefined"],
     [present |-> TRUE, content |-> "undefined", category |-> "home"]}

\* fc.args of a retrieve_memories call.
QueryArgs ==
    {[present |-> FALSE, query |-> "undefined"]}
    \cup {[present |-> TRUE, query |-> q] :
            q \in {"undefined", "", " ", "t", "T", "work", "zz"}}

\* fc.args of a clear_memories call.
ClearArgs ==
    {[present |-> FALSE, category |-> "undefined"]}
    \cup {[present |-> TRUE, category |-> c] :
            c \in {"undefined", "", "Work", "work", "home"}}

\* The backend process is started again: the module state is as on load, and
\* loadMemories reads the memory file into memoryStore.
Restart ==
    /\ memoryStore' = memoryFile
    /\ ENABLED_TOOLS' = DefaultEnabledTools
    /\ toolAsyncSettings' = DefaultAsyncSettings
    /\ lastScreenshotData' = "null"
    /\ lastDecl' = << >>
    /\ currentModality' = "AUDIO"
    /\ geminiWs' = NoSession
    /\ pc' = [i \in Tasks |-> IF i = 0 THEN "import" ELSE "idle"]
    /\ requested' = [i \in Tasks |-> "AUDIO"]
    /\ oldModality' = [i \in Tasks |-> "AUDIO"]
    /\ cfgTools' = [i \in Tasks |-> << >>]
    /\ sessOpen' = {}
    /\ lastStep' = Step("restart")
    /\ handlers' = [e \in Events |-> NoHandler]
    /\ toolOrder' = DefaultToolOrder
    /\ SYSTEM_PROMPT' = generateSystemPrompt(DefaultEnabledTools)
    /\ clientWs' = "open"
    /\ UNCHANGED << memoryFile, fileSystem, nCalls, widgetVars, windowVars >>

NextMemory ==
    \/ \E b \in BOOLEAN : UpdateTools(Flags(MemoryTools, b))
    \/ \E args \in StoreArgs :
          /\ ExecuteTool("store_memory", args)
          /\ UNCHANGED << toolVars, handlers, extraVars, lastDecl, taskVars, bridgeVars >>
    \/ \E args \in QueryArgs :
          /\ ExecuteTool("retrieve_memories", args)
          /\ UNCHANGED << toolVars, handlers, extraVars, lastDecl, taskVars, bridgeVars >>
    \/ \E args \in ClearArgs :
          /\ ExecuteTool("clear_memories", args)
          /\ UNCHANGED << toolVars, handlers, extraVars, lastDecl, taskVars, bridgeVars >>
    \/ Restart

SpecMemory == Init /\ [][NextMemory]_vars

(***************************************************************************)
(* POST /api/tools/update with any of its fields, and setToolOrder.        *)
(***************************************************************************)
\* `order` arrays: the registry order, a few tools moved to the front, one
\* tool named twice, the empty array, and one with a name that is no key.
OrderInputs ==
    { RegistryKeys,
      << "take_screenshot", "googleSearch" >>,
      << "store_memory", "store_memory" >>,
      << >>,
      << "take_screenshot", "generate_image" >> }

\* `tools` and `asyncSettings` objects: one flag of a tool, or of a name that
\* is no key.
FlagInputs ==
    {OneFlag(t, b) : t \in {"take_screenshot", "store_memory"}, b \in BOOLEAN}
    \cup {OneFlag("generate_image", TRUE)}

\* Request bodies: each field alone, and the fields together.
UpdateBodies ==
    {[tools |-> f] : f \in FlagInputs}
    \cup {[order |-> o] : o \in OrderInputs}
    \cup {[asyncSettings |-> f] : f \in FlagInputs}
    \cup {[tools |-> f, order |-> o] : f \in FlagInputs, o \in OrderInputs}
    \cup {[tools |-> f, order |-> o, asyncSettings |-> g] :
            f \in {OneFlag("store_memory", TRUE)},
            o \in {<< "take_screenshot", "googleSearch" >>},
            g \in FlagInputs}
    \cup {[enabled |-> OneFlag("take_screenshot", TRUE)]}

\* A request to the endpoint.
PostRequest(body) ==
    /\ PostToolsUpdate(body)
    /\ UNCHANGED << implVars, nCalls, lastDecl, taskVars, bridgeVars,
                    handlers, widgetVars, clientWs, windowVars >>

\* A direct call of setToolOrder; a throw leaves the order as it was.
SetToolOrder(newOrder) ==
    /\ toolOrder' = setToolOrder(newOrder)
    /\ lastStep' = Step(IF SetToolOrderThrows(newOrder)
                        THEN "set_tool_order_error" ELSE "set_tool_order")
    /\ UNCHANGED << toolVars, SYSTEM_PROMPT, implVars, nCalls, lastDecl,
                    taskVars, bridgeVars, handlers, widgetVars, clientWs, windowVars >>

NextUpdate ==
    \/ \E body \in UpdateBodies : PostRequest(body)
    \/ \E newOrder \in OrderInputs : SetToolOrder(newOrder)

SpecUpdate == Init /\ [][NextUpdate]_vars

(***************************************************************************)
(* The close of the client's socket (server.js, clientWs.on('close')).     *)
(***************************************************************************)
\* The sessions the close handler closes: the current handle, if any.
ClosedByClientClose == IF geminiWs # NoSession THEN {geminiWs} ELSE {}

\* The client's socket closes: `if (geminiWs) geminiWs.close()`. The
\* connects and timers that are running go on.
ClientClose ==
    /\ clientWs = "open"
    /\ clientWs' = "closed"
    /\ sessOpen' = sessOpen \ ClosedByClientClose
    /\ lastStep' = Step("client_close")
    /\ UNCHANGED << toolVars, orderVars, widgetVars, windowVars, handlers,
                    implVars, nCalls, lastDecl, taskVars, currentModality,
                    geminiWs >>

\* A client connection with modality switches up to the close of its
\* socket; frames arrive only while the socket is open.
NextClose ==
    \/ \E m \in {"AUDIO", "TEXT"} : clientWs = "open" /\ HandleSetModality(m)
    \/ \E i \in SwitchTasks : Timer300(i)
    \/ \E i \in SwitchTasks : Close500(i)
    \/ \E i \in Tasks : Import(i)
    \/ \E i \in Tasks : ConnectSucceed(i)
    \/ \E i \in SwitchTasks : ConnectFail(i)
    \/ clientWs = "open" /\ HandleAudio
    \/ clientWs = "open" /\ HandleText
    \/ ClientClose

SpecClose == Init /\ [][NextClose]_vars

(***************************************************************************)
(* The Electron main window (electron.js) and the resize effect of the     *)
(* widget's dropdowns.                                                     *)
(***************************************************************************)
\* screen.getPrimaryDisplay().workAreaSize.height of the display used here.
ScreenHeight == 1080

windowHeight == 120
normalHeight == 120
expandedHeight == 600

\* The margin below the window.
BottomMargin == 20

\* clamp(value, min, max)
clamp(value, min, max) ==
    LET atLeast == IF value > min THEN value ELSE min
    IN  IF atLeast < max THEN atLeast ELSE max

\* The y of createWindow: Math.max(0, ...) on Windows.
InitialY(isWindows) ==
    IF isWindows
    THEN (IF ScreenHeight - windowHeight - BottomMargin > 0
          THEN ScreenHeight - windowHeight - BottomMargin ELSE 0)
    ELSE ScreenHeight - windowHeight - BottomMargin

\* ipcMain.on('resize-for-dropdown'): the window is moved up by the height
\* difference and given the expanded height, or moved down by it and given
\* the normal height, from the bounds it has; clamped on Windows only.
ResizeForDropdown(window, show) ==
    LET maxY == ScreenHeight - normalHeight - BottomMargin
        heightDiff == expandedHeight - normalHeight
        moved == IF show THEN window.y - heightDiff ELSE window.y + heightDiff
        newY == IF window.isWindows THEN clamp(moved, 0, maxY) ELSE moved
    IN  [window EXCEPT
           !.y = newY,
           !.height = IF show THEN expandedHeight ELSE normalHeight,
           !.everExpanded = @ \/ show,
           !.expandedFrom = IF show /\ ~window.everExpanded
                            THEN window.y ELSE @]

\* anyDropdownOpen of the resize effect.
AnyDropdownOpen(show) == \E d \in Dropdowns : show[d]

\* The app is ready: createWindow makes the window at the bottom right,
\* the widget is loaded and its resize effect runs for the first time; with
\* no dropdown open it starts the 250ms timer.
CreateWindow(isWindows) ==
    /\ ~mainWindow.created
    /\ mainWindow' = [created |-> TRUE, isWindows |-> isWindows,
                      y |-> InitialY(isWindows), height |-> windowHeight,
                      everExpanded |-> FALSE, expandedFrom |-> 0]
    /\ showDropdown' = [d \in Dropdowns |-> FALSE]
    /\ collapseTimers' = 1
    /\ lastStep' = Step("create_window")
    /\ UNCHANGED << nDropdownEvents, toolVars, orderVars, widgetVars,
                    clientWs, handlers, implVars, nCalls, lastDecl, taskVars,
                    bridgeVars >>

\* One of the dropdown states changes (its button, a click outside, a
\* selection) and the resize effect runs: with a dropdown open it sends
\* resize-for-dropdown {show: true} at once, otherwise it starts a 250ms
\* timer. Timers started earlier are not cleared.
SetShowDropdown(d, value) ==
    /\ mainWindow.created
    /\ nDropdownEvents < MaxDropdownEvents
    /\ showDropdown[d] # value
    /\ nDropdownEvents' = nDropdownEvents + 1
    /\ showDropdown' = [showDropdown EXCEPT ![d] = value]
    /\ IF AnyDropdownOpen(showDropdown')
       THEN /\ mainWindow' = ResizeForDropdown(mainWindow, TRUE)
            /\ collapseTimers' = collapseTimers
       ELSE /\ mainWindow' = mainWindow
            /\ collapseTimers' = collapseTimers + 1
    /\ lastStep' = Step("dropdown")
    /\ UNCHANGED << toolVars, orderVars, widgetVars, clientWs, handlers,
                    implVars, nCalls, lastDecl, taskVars, bridgeVars >>

\* A 250ms timer of the resize effect fires: resize-for-dropdown
\* {show: false} is sent.
CollapseTimer ==
    /\ collapseTimers > 0
    /\ collapseTimers' = collapseTimers - 1
    /\ mainWindow' = ResizeForDropdown(mainWindow, FALSE)
    /\ lastStep' = Step("collapse_timer")
    /\ UNCHANGED << showDropdown, nDropdownEvents, toolVars, orderVars,
                    widgetVars, clientWs, handlers, implVars, nCalls,
                    lastDecl, taskVars, bridgeVars >>

NextWindow ==
    \/ \E isWindows \in BOOLEAN : CreateWindow(isWindows)
    \/ \E d \in Dropdowns, value \in BOOLEAN : SetShowDropdown(d, value)
    \/ CollapseTimer

SpecWindow == Init /\ [][NextWindow]_vars

(***************************************************************************)
(* The tools panel of the widget: the mount effect and the toggles, with   *)
(* the requests they make to the backend.                                  *)
(***************************************************************************)
\* The object a forEach over the tools list builds: tool id -> the value of
\* field of the last entry with that id.
ToolsObject(tools, field) ==
    [id \in {tools[k].id : k \in 1..Len(tools)} |->
        LET last == CHOOSE k \in 1..Len(tools) :
                       /\ tools[k].id = id
                       /\ \A j \in (k + 1)..Len(tools) : tools[j].id # id
        IN  IF field = "enabled" THEN tools[last].enabled ELSE tools[last].async]

\* localStorage.setItem('apsara-enabled-tools', JSON.stringify(toolsState));
\* JSON.parse gives back the same object of booleans.
SavedItem(toolsState) == [saved |-> TRUE, toolsState |-> toolsState]

\* The body of the restore request of the mount effect.
RestoreBody(toolsState) == [enabled |-> toolsState]

\* The widget is started, with its state as useState and useRef initialise
\* it, and its mount effect runs to the end: with a saved item the restore
\* request is made; then the tools list is fetched.
WidgetMount ==
    /\ IF localStorage.saved
       THEN ApplyUpdate(RestoreBody(localStorage.toolsState))
       ELSE UNCHANGED << toolVars, orderVars >>
    /\ availableTools' = getAllTools'
    /\ isConnected' = FALSE
    /\ isMicMuted' = FALSE
    /\ isMutedRef' = FALSE
    /\ wsRef' = "null"
    /\ processorRef' = "null"
    /\ lastStep' = Step("mount")
    /\ UNCHANGED << localStorage, implVars, nCalls, lastDecl, taskVars,
                    bridgeVars, handlers, clientWs, windowVars >>

\* handleToolToggle of a tool the panel lists, while no call is running (in
\* a call it only shows 'Stop session first!'): the list is updated at once,
\* the flags of the whole list are posted as `tools`; on success they are
\* saved to localStorage, on an error response the list is fetched again.
HandleToolToggle(toolId) ==
    LET updatedTools ==
            [k \in 1..Len(availableTools) |->
                IF availableTools[k].id = toolId
                THEN [availableTools[k] EXCEPT !.enabled = ~@]
                ELSE availableTools[k]]
        body == [tools |-> ToolsObject(updatedTools, "enabled")]
    IN  /\ ~isConnected
        /\ Contains([k \in 1..Len(availableTools) |-> availableTools[k].id],
                    toolId)
        /\ ApplyUpdate(body)
        /\ IF UpdateThrowsAt(body) = "none"
           THEN /\ localStorage' = SavedItem(body.tools)
                /\ availableTools' = updatedTools
           ELSE /\ localStorage' = localStorage
                /\ availableTools' = getAllTools'
        /\ lastStep' = Step("tool_toggle")
        /\ UNCHANGED << callVars, implVars, nCalls, lastDecl, taskVars,
                        bridgeVars, handlers, clientWs, windowVars >>

\* handleAsyncToggle: the list is updated at once and the async flags of the
\* whole list are posted as `asyncSettings`; nothing is saved.
HandleAsyncToggle(toolId) ==
    LET updatedTools ==
            [k \in 1..Len(availableTools) |->
                IF availableTools[k].id = toolId
                THEN [availableTools[k] EXCEPT !.async = ~@]
                ELSE availableTools[k]]
        body == [asyncSettings |-> ToolsObject(updatedTools, "async")]
    IN  /\ ~isConnected
        /\ Contains([k \in 1..Len(availableTools) |-> availableTools[k].id],
                    toolId)
        /\ ApplyUpdate(body)
        /\ availableTools' = updatedTools
        /\ lastStep' = Step("async_toggle")
        /\ UNCHANGED << localStorage, callVars, implVars, nCalls, lastDecl,
                        taskVars, bridgeVars, handlers, clientWs, windowVars >>

(***************************************************************************)
(* The call controls of the widget: start, end, mute, and the microphone.  *)
(***************************************************************************)
\* The state of the backend and of the Electron window, which the call
\* controls leave alone.
backendVars ==
    << toolVars, orderVars, implVars, nCalls, lastDecl, taskVars, bridgeVars,
       handlers, clientWs, windowVars >>

\* stopMicrophone: a processor that exists is disconnected and dropped; a
\* microphone that is still being started is not reached.
stopMicrophone == IF processorRef = "capturing" THEN "null" ELSE processorRef

\* handleStartClick, reached by a click on the widget or on the end button
\* while not connected: the socket to the backend is created. (One socket
\* at a time: a click while a socket is connecting or closing is left out.)
HandleStartClick ==
    /\ ~isConnected
    /\ wsRef = "null"
    /\ wsRef' = "connecting"
    /\ lastStep' = Step("start_click")
    /\ UNCHANGED << isConnected, isMicMuted, isMutedRef, processorRef,
                    panelVars, backendVars >>

\* ws.onopen: the widget is connected; handleStartClick goes on to
\* startMicrophone, which waits for getUserMedia.
WsOnOpen ==
    /\ wsRef = "connecting"
    /\ wsRef' = "open"
    /\ isConnected' = TRUE
    /\ processorRef' = "starting"
    /\ lastStep' = Step("ws_open")
    /\ UNCHANGED << isMicMuted, isMutedRef, panelVars, backendVars >>

\* ws.onerror of a socket that does not open: the promise rejects and
\* handleStartClick shows the error.
WsOnError ==
    /\ wsRef = "connecting"
    /\ wsRef' = "null"
    /\ lastStep' = Step("ws_error")
    /\ UNCHANGED << isConnected, isMicMuted, isMutedRef, processorRef,
                    panelVars, backendVars >>

\* getUserMedia resolves and the processor is set up (granted), or it
\* rejects.
MicrophoneStarted(granted) ==
    /\ processorRef = "starting"
    /\ processorRef' = IF granted THEN "capturing" ELSE "null"
    /\ lastStep' = Step("microphone")
    /\ UNCHANGED << isConnected, isMicMuted, isMutedRef, wsRef, panelVars,
                    backendVars >>

\* `if (!isConnected) return;` of handleMuteToggle.
MuteRefused == ~isConnected

\* handleMuteToggle: refused while not connected; otherwise the state and
\* the ref are both set to the opposite of the state.
HandleMuteToggle ==
    /\ IF MuteRefused
       THEN /\ UNCHANGED << isMicMuted, isMutedRef >>
            /\ lastStep' = Step("mute_refused")
       ELSE /\ isMicMuted' = ~isMicMuted
            /\ isMutedRef' = ~isMicMuted
            /\ lastStep' = Step("mute_toggle")
    /\ UNCHANGED << isConnected, wsRef, processorRef, panelVars, backendVars >>

\* Mutant: the processor does not look at the mute ref.
AudioMuted_NoCheck == FALSE

\* `const muted = isMutedRef.current; if (muted) return;` of onaudioprocess.
AudioMuted == isMutedRef

\* processor.onaudioprocess of a processor that is connected: nothing is
\* sent while muted or without an open socket; otherwise the chunk is sent
\* as an audio frame.
OnAudioProcess ==
    /\ processorRef = "capturing"
    /\ lastStep' = Step(IF AudioMuted THEN "audio_muted"
                        ELSE IF wsRef # "open" THEN "audio_no_socket"
                        ELSE "audio_sent")
    /\ UNCHANGED << callVars, panelVars, backendVars >>

\* handleEndClick while connected: the microphone is stopped, the socket
\* closed, and the connected and mute states reset.
HandleEndClick ==
    /\ isConnected
    /\ processorRef' = stopMicrophone
    /\ wsRef' = IF wsRef = "open" THEN "closing" ELSE wsRef
    /\ isConnected' = FALSE
    /\ isMicMuted' = FALSE
    /\ isMutedRef' = FALSE
    /\ lastStep' = Step("end_click")
    /\ UNCHANGED << panelVars, backendVars >>

\* ws.onclose, after the widget or the backend closed the socket: the
\* connected and mute states are reset and the microphone is stopped.
WsOnClose ==
    /\ wsRef \in {"open", "closing"}
    /\ wsRef' = "null"
    /\ processorRef' = stopMicrophone
    /\ isConnected' = FALSE
    /\ isMicMuted' = FALSE
    /\ isMutedRef' = FALSE
    /\ lastStep' = Step("ws_close")
    /\ UNCHANGED << panelVars, backendVars >>

\* The tools the user toggles in the panel.
PanelTools == {"googleSearch", "take_screenshot", "store_memory"}

\* The widget and the backend, each restarted at any time.
NextWidget ==
    \/ WidgetMount
    \/ \E toolId \in PanelTools : HandleToolToggle(toolId)
    \/ \E toolId \in PanelTools : HandleAsyncToggle(toolId)
    \/ Restart
    \/ HandleStartClick
    \/ WsOnOpen
    \/ WsOnError
    \/ \E granted \in BOOLEAN : MicrophoneStarted(granted)
    \/ HandleMuteToggle
    \/ OnAudioProcess
    \/ HandleEndClick
    \/ WsOnClose

SpecWidget == Init /\ [][NextWidget]_vars

(***************************************************************************)
(* Properties of the bridge and the relay, checked under Spec.             *)
(***************************************************************************)
ModalityStates == {"AUDIO", "TEXT", "SWITCHING"}

\* The set_modality task started most recently.
NewestTask == NextTask - 1

\* C2: while the modality state is SWITCHING no audio, video, camera or text
\* frame is forwarded to an upstream handle: a handler that has just forwarded
\* a frame did not run in state SWITCHING (a frame handler leaves the modality
\* state as it found it).
C2_NoForwardWhileSwitching ==
    (lastStep.kind \in {"audio", "video", "camera", "text"} /\ lastStep.forwarded)
    => currentModality # "SWITCHING"

\* C2 witness: a video frame was handled while SWITCHING with a handle present,
\* and was not forwarded.
C2_Witness ==
    /\ lastStep = FrameStep("video", FALSE)
    /\ currentModality = "SWITCHING"
    /\ geminiWs # NoSession

\* C3 as claimed: the modality variable starts as AUDIO, is always one of
\* AUDIO, TEXT, SWITCHING, every change of it is one of AUDIO->SWITCHING,
\* TEXT->SWITCHING, SWITCHING->TEXT, SWITCHING->AUDIO, and SWITCHING is
\* entered only by the handler of a set_modality frame.
C3_ModalityStateMachine ==
    /\ currentModality = "AUDIO"
    /\ [](currentModality \in ModalityStates)
    /\ [][ /\ currentModality' # currentModality =>
                \/ currentModality \in {"AUDIO", "TEXT"}
                     /\ currentModality' = "SWITCHING"
                \/ currentModality = "SWITCHING"
                     /\ currentModality' \in {"AUDIO", "TEXT"}
           /\ (currentModality' = "SWITCHING" /\ currentModality # "SWITCHING")
                => lastStep'.kind = "set_modality" ]_vars

\* C4 as claimed: a client connection owns at most one open upstream session.
C4_AtMostOneOpenSession == Cardinality(sessOpen) <= 1

\* The step is the handling of an audio frame that directly follows the
\* handling of a set_modality TEXT frame received in state AUDIO.
PendingAudioHandled ==
    /\ lastStep.kind = "set_modality"
    /\ oldModality[NewestTask] = "AUDIO"
    /\ requested[NewestTask] = "TEXT"
    /\ lastStep'.kind = "audio"

\* Task i is a switch from AUDIO to TEXT.
AudioToText(i) == oldModality[i] = "AUDIO" /\ requested[i] = "TEXT"

\* C5 as claimed: after set_modality TEXT in state AUDIO the pending audio
\* frame is not forwarded, and the switch ends with the modality state TEXT.
C5_PendingAudioThenText ==
    [][ /\ PendingAudioHandled => ~lastStep'.forwarded
        /\ \A i \in SwitchTasks :
              (AudioToText(i) /\ pc[i] \in {"import", "connect"}
                 /\ pc'[i] \in {"done", "failed"})
              => currentModality' = "TEXT" ]_vars

\* C5 amended: after set_modality TEXT in state AUDIO the pending audio frame
\* is not forwarded; the modality state becomes TEXT when the upstream connect
\* of that switch succeeds, and falls back to AUDIO when it fails.
C5_PendingAudioThenTextOrFallback ==
    [][ /\ PendingAudioHandled => ~lastStep'.forwarded
        /\ \A i \in SwitchTasks :
              /\ (AudioToText(i) /\ pc[i] = "connect" /\ pc'[i] = "done")
                   => currentModality' = "TEXT"
              /\ (AudioToText(i) /\ pc[i] \in {"import", "connect"}
                    /\ pc'[i] = "failed")
                   => currentModality' = "AUDIO" ]_vars

\* C5 witness: the audio frame was handled right after the set_modality TEXT
\* frame, with an upstream handle present, and was not forwarded.
C5_Witness ==
    /\ lastStep = FrameStep("audio", FALSE)
    /\ pc[NewestTask] = "delay300"
    /\ AudioToText(NewestTask)
    /\ currentModality = "SWITCHING"
    /\ geminiWs \in sessOpen

\* C6 as claimed: an audio frame is forwarded only in state AUDIO and only to
\* a session that was opened for AUDIO responses.
C6_AudioOnlyToAudioSession ==
    lastStep = FrameStep("audio", TRUE) =>
        /\ currentModality = "AUDIO"
        /\ ResponseModality(requested[geminiWs]) = "AUDIO"

\* C7 as claimed: when the connect of a modality switch fails, the state falls
\* back to the modality held before the switch, which is AUDIO or TEXT.
C7_FallbackToPriorModality ==
    [][ \A i \in SwitchTasks :
          (pc[i] \in {"import", "connect"} /\ pc'[i] = "failed")
          => /\ currentModality' = oldModality[i]
             /\ currentModality' \in {"AUDIO", "TEXT"} ]_vars

C1_DisabledToolNotExecuted ==
    [][ (nCalls' = nCalls + 1 /\ ~IsEnabled(lastStep'.result.name))
        => /\ lastStep'.result.success = FALSE
           /\ lastStep'.result.error = "Tool disabled by configuration"
           /\ lastStep'.result.impl = "none"
           /\ UNCHANGED implVars ]_vars

\* C1 witness: take_screenshot was declared to a session that is still open,
\* was disabled afterwards, and the call that then arrived was refused.
C1_Witness ==
    /\ lastStep = CallStep(DisabledResult("take_screenshot"))
    /\ \E s \in sessOpen : "take_screenshot" \in DeclaredNames(cfgTools[s])
    /\ ~ENABLED_TOOLS["take_screenshot"]
    /\ lastScreenshotData = "null"

\* C10: the tool declarations of an upstream session are those computed from
\* the registry during that session's handshake; they change at no other
\* step, in particular not at a registry update, and a handshake made after
\* an update uses the updated registry.
C10_DeclarationsFixedAtHandshake ==
    [][ \A i \in Tasks :
          /\ (pc[i] = "import" /\ pc'[i] = "connect")
               => cfgTools'[i] = getToolDeclarations'
          /\ ~(pc[i] = "import" /\ pc'[i] = "connect")
               => cfgTools'[i] = cfgTools[i] ]_vars

\* C10 witness: the first session is open with the declarations of the
\* registry as it was, and the session of a later switch holds the
\* declarations of the registry as updated in between.
C10_Witness ==
    /\ 0 \in sessOpen
    /\ pc[1] = "connect"
    /\ DeclaredNames(cfgTools[0]) = {"googleSearch"}
    /\ DeclaredNames(cfgTools[1]) = {"googleSearch", "store_memory"}
    /\ EnabledSet = {"googleSearch", "store_memory"}

(***************************************************************************)
(* Properties of the executor, checked under SpecExec.                     *)
(***************************************************************************)
\* The step is the executeTool call of functionName with args.
Executes(functionName, args) ==
    /\ ExecuteTool(functionName, args)
    /\ UNCHANGED << toolVars, handlers, extraVars, lastDecl, taskVars, bridgeVars >>

\* The calls of the screenshot, mail and file tools, as <<name, args>>.
ExecCalls ==
    ({"take_screenshot"} \X {NoArgs})
    \cup ({"send_email_to_shubharthak"} \X MailArgs)
    \cup ({"delete_file"} \X DeleteArgs)

\* C11: an executeTool call with a name that is no key of the registry,
\* whatever its args (an args object or none), returns a result for that
\* name with success=false: the promise resolves, it does not reject, and no
\* tool state is changed.
C11_UnknownNameReturnsError ==
    [][ \A f \in UnknownNames, args \in ArgInputs :
          Executes(f, args)
          => /\ lastStep'.result.name = f
             /\ lastStep'.result.success = FALSE
             /\ lastStep'.result.error
                   \in {"Tool disabled by configuration", "Unknown function"}
             /\ UNCHANGED implVars ]_vars

\* C11 witness: generate_image, which the registry does not hold, was called
\* and refused, while tools of the registry are enabled.
C11_Witness ==
    /\ lastStep = CallStep(DisabledResult("generate_image"))
    /\ ENABLED_TOOLS["take_screenshot"]
    /\ nCalls = 2

\* C12: an executeTool call of an enabled tool always resolves to a result
\* for that tool; when reading a field of a missing args object throws, or
\* the tool's own operation fails, the result is success=false with the
\* error message, and a call that failed on its args changed no tool state.
C12_ErrorsBecomeResults ==
    [][ \A call \in ExecCalls :
          (IsEnabled(call[1]) /\ Executes(call[1], call[2]))
          => /\ lastStep'.result.name = call[1]
             /\ (call[1] \in ArgumentReaders /\ ~call[2].present)
                  => /\ lastStep'.result.success = FALSE
                     /\ lastStep'.result.error = "TypeError"
                     /\ UNCHANGED implVars
             /\ lastStep'.result.success = (lastStep'.result.error = "none")
       ]_vars

\* C12 witness: delete_file is enabled and was called without an args
\* object; the call returned the error result of the catch.
C12_Witness ==
    /\ lastStep = CallStep(Caught("delete_file", "TypeError"))
    /\ ENABLED_TOOLS["delete_file"]
    /\ fileSystem = InitialFiles

(***************************************************************************)
(* Properties of the message handler, checked under SpecFrames.            *)
(***************************************************************************)
\* C19: a malformed client frame is caught: its handling sends no frame to
\* the client, forwards nothing upstream, leaves the modality state, the
\* upstream handle, the sessions and the running switches as they are, and
\* the handlers of the frames that follow stay enabled.
C19_MalformedFrameIgnored ==
    /\ [][ (\E data \in MalformedData : HandleMalformed(data))
           => /\ lastStep'.payload.toClient = << >>
              /\ ~lastStep'.forwarded
              /\ UNCHANGED << bridgeVars, taskVars, toolVars, implVars >> ]_vars
    /\ [](lastStep.kind = "malformed"
            => /\ ENABLED HandleText
               /\ ENABLED HandleInterrupt
               /\ (NextTask <= MaxSessionSwitches
                     => ENABLED HandleSetModality("TEXT")))

\* C19 witness: a malformed frame arrived while a session is open and a
\* switch is running; the state is SWITCHING as before.
C19_Witness ==
    /\ lastStep.kind = "malformed"
    /\ currentModality = "SWITCHING"
    /\ geminiWs \in sessOpen
    /\ pc[1] = "delay300"

(***************************************************************************)
(* Properties of the tool-call loop, checked under SpecRelay.              *)
(***************************************************************************)
\* The responses of the first n calls of an event, in the order listed.
RECURSIVE ResponsesOf(_, _)
ResponsesOf(calls, n) ==
    IF n = 0 THEN << >>
    ELSE Append(ResponsesOf(calls, n - 1), FunctionResponse(calls[n]))

\* C13: for an upstream event with tool calls, the calls are executed one by
\* one in the order listed, each once: every execution is one executeTool
\* call of the next call of some event and is followed in the same step by
\* one tool response with that call's id and name, so the responses sent are
\* always those of the calls executed so far, in order; the gemini_message
\* of the event is relayed to the client only when the responses of all its
\* calls have been sent, and no call is executed after that.
C13_ToolCallsOnceInOrderThenRelay ==
    /\ [](\A e \in Events :
            /\ handlers[e].responses =
                  ResponsesOf(handlers[e].calls, handlers[e].next - 1)
            /\ handlers[e].phase = "relayed"
                  => Len(handlers[e].responses) = Len(handlers[e].calls))
    /\ [][ /\ nCalls' # nCalls
               => \E e \in Events :
                    /\ nCalls' = nCalls + 1
                    /\ handlers[e].phase = "executing"
                    /\ lastStep'.result.name
                         = handlers[e].calls[handlers[e].next].name
                    /\ handlers'[e].responses =
                          Append(handlers[e].responses,
                                 FunctionResponse(
                                    handlers[e].calls[handlers[e].next]))
                    /\ \A d \in Events \ {e} : handlers'[d] = handlers[d]
           /\ \A e \in Events :
                /\ handlers'[e].responses # handlers[e].responses
                     => nCalls' = nCalls + 1
                /\ handlers[e].phase = "relayed"
                     => handlers'[e] = handlers[e]
                /\ (handlers[e].phase = "executing"
                      /\ handlers'[e].phase = "relayed")
                     => Len(handlers'[e].responses) = Len(handlers[e].calls)
         ]_vars

\* C13 witness: an event with two calls was relayed after both responses,
\* in the order of the calls, while a second event is still in its loop.
C13_Witness ==
    /\ handlers[1].phase = "relayed"
    /\ handlers[1].calls = << MemoryCall, ScreenshotCall >>
    /\ handlers[1].responses =
          << FunctionResponse(MemoryCall), FunctionResponse(ScreenshotCall) >>
    /\ handlers[2].phase = "executing"
    /\ nCalls = 2

(***************************************************************************)
(* Properties of the screenshot cache and the mail tool, checked under     *)
(* SpecExec.                                                               *)
(***************************************************************************)
\* send_email_to_shubharthak called with the "use_last_screenshot" placeholder.
PlaceholderArgs == [present |-> TRUE, fileBase64 |-> "use_last_screenshot"]

SendsWithPlaceholder == Executes("send_email_to_shubharthak", PlaceholderArgs)

\* The result of a send that succeeded.
SendSucceeded ==
    [name |-> "send_email_to_shubharthak", success |-> TRUE, error |-> "none",
     impl |-> "sendEmailToShubharthak"]

\* The last step sent a mail that carried the cached screenshot.
ScreenshotJustSent ==
    /\ lastStep.result = SendSucceeded
    /\ lastStep.payload.attachment = "screenshot"

\* C14: with the screenshot of a successful take_screenshot in the cache, a
\* send_email call with the placeholder that succeeds has sent the mail with
\* that screenshot attached and leaves the cache empty; one that fails
\* leaves the screenshot in the cache.
C14_ScreenshotSentThenCacheCleared ==
    [][ (lastScreenshotData # "null" /\ SendsWithPlaceholder)
        => IF lastStep'.result.success
           THEN /\ lastStep'.payload.attachment = lastScreenshotData
                /\ lastScreenshotData' = "null"
           ELSE /\ lastStep'.payload.attachment = "no mail"
                /\ lastScreenshotData' = lastScreenshotData ]_vars

\* C14 witness: after take_screenshot and send_email, the mail carried the
\* screenshot and the cache is empty.
C14_Witness ==
    /\ ScreenshotJustSent
    /\ lastScreenshotData = "null"
    /\ nCalls = 2

\* C15 as claimed: the send_email call with the placeholder that follows a
\* send which used up the cached screenshot returns an error (or a result
\* that is not a success).
C15_SecondSendFails ==
    [][ (ScreenshotJustSent /\ SendsWithPlaceholder)
        => ~lastStep'.result.success ]_vars

\* C15 amended: that call sends the mail without an attachment and returns
\* the outcome of the send: success when the mail went out, an error only
\* when the tool is disabled or the send itself failed; the cache stays
\* empty.
C15_SecondSendHasNoAttachment ==
    [][ (ScreenshotJustSent /\ SendsWithPlaceholder)
        => /\ lastScreenshotData' = "null"
           /\ IF lastStep'.result.success
              THEN lastStep'.payload.attachment = "none"
              ELSE /\ lastStep'.payload.attachment = "no mail"
                   /\ lastStep'.result.error
                        \in {"send failed", "Tool disabled by configuration"}
       ]_vars

\* C15 witness: the third call, a send after the cache was emptied, went out
\* without attachment and reported success.
C15_Witness ==
    /\ lastStep.result = SendSucceeded
    /\ lastStep.payload.attachment = "none"
    /\ lastScreenshotData = "null"
    /\ nCalls = 3

(***************************************************************************)
(* Properties of deleteFile, checked under SpecExec.                       *)
(***************************************************************************)
\* C20 as claimed: a delete_file call removes a file only when its confirm
\* argument is true; a call whose confirm is anything else, or absent,
\* returns an error result and leaves the file system as it was; and no
\* other step changes the file system.
C20_DeleteOnlyWhenConfirmed ==
    [][ /\ \A args \in DeleteArgs :
              Executes("delete_file", args)
              => /\ fileSystem' # fileSystem
                      => (args.present /\ args.confirm = "true")
                 /\ (~args.present \/ args.confirm # "true")
                      => /\ ~lastStep'.result.success
                         /\ fileSystem' = fileSystem
        /\ fileSystem' # fileSystem
              => \E args \in DeleteArgs : Executes("delete_file", args)
      ]_vars

(***************************************************************************)
(* Properties of the memory tools, checked under SpecMemory.               *)
(***************************************************************************)
\* The step is a retrieve_memories call, enabled, with an args object.
Retrieves(args) ==
    /\ args.present
    /\ IsEnabled("retrieve_memories")
    /\ Executes("retrieve_memories", args)

\* The step is a clear_memories call, enabled, with a category.
ClearsCategory(args) ==
    /\ args.present
    /\ args.category \notin {"undefined", ""}
    /\ IsEnabled("clear_memories")
    /\ Executes("clear_memories", args)

\* value, a content or a category, contains the query as a substring.
ContainsQuery(value, query) ==
    value # "undefined" /\ includes(Chars(value), Chars(query))

\* The entry stored by the store_memory call of the last step is among the
\* entries the retrieve of this step returns.
JustStoredIsReturned ==
    (lastStep.result.name = "store_memory" /\ lastStep.result.success)
    => \E k \in 1..Len(lastStep'.payload.memories) :
          lastStep'.payload.memories[k] = memoryStore[Len(memoryStore)]

\* C16 as claimed: retrieve_memories returns every stored entry when no
\* query is given, and otherwise exactly the stored entries whose content or
\* category contains the query as a substring (none when no entry does); an
\* entry just stored is returned by a retrieve with no query.
C16_RetrieveBySubstring ==
    [][ \A args \in QueryArgs :
          Retrieves(args)
          => /\ lastStep'.result.success
             /\ lastStep'.payload.memories =
                  IF args.query = "undefined" THEN memoryStore
                  ELSE SelectSeq(memoryStore,
                         LAMBDA mem :
                            \/ ContainsQuery(mem.content, args.query)
                            \/ ContainsQuery(mem.category, args.query))
             /\ args.query = "undefined" => JustStoredIsReturned ]_vars

\* C17 as claimed: clear_memories called with a category removes the entries
\* of that category and no other entry.
C17_ClearRemovesOnlyCategory ==
    [][ \A args \in ClearArgs :
          ClearsCategory(args)
          => memoryStore' =
                SelectSeq(memoryStore,
                          LAMBDA mem : mem.category # args.category) ]_vars

\* C17 amended: a clear_memories call with a category that reports success
\* has removed the entries whose category equals the given one ignoring
\* letter case, and no other entry; the entries left keep their order.
C17_ClearIgnoringCase ==
    [][ \A args \in ClearArgs :
          (ClearsCategory(args) /\ lastStep'.result.success)
          => memoryStore' =
                SelectSeq(memoryStore,
                          LAMBDA mem :
                             toLowerCase(Chars(mem.category))
                                # toLowerCase(Chars(args.category))) ]_vars

\* C17 witness: after two entries of different categories were stored, a
\* clear left exactly the entry of category "general".
C17_Witness ==
    /\ lastStep.result.name = "clear_memories"
    /\ lastStep.result.success
    /\ nCalls = 3
    /\ memoryStore = << [content |-> "Tea", category |-> "general"] >>

\* C18 as claimed: after every store_memory or clear_memories call that
\* reports success the memory file holds the in-memory array, and a restart
\* leaves the memory store as it was before the restart.
C18_MemoriesSurviveRestart ==
    [][ /\ (nCalls' = nCalls + 1
             /\ lastStep'.result.name \in {"store_memory", "clear_memories"}
             /\ lastStep'.result.success)
            => memoryFile' = memoryStore'
        /\ Restart => memoryStore' = memoryStore ]_vars

(***************************************************************************)
(* Properties of the tools panel, checked under SpecWidget.                *)
(***************************************************************************)
\* C21 as claimed: the flags chosen in the widget are restored on restart:
\* when the backend has restarted with its defaults and the widget, which
\* showed the flags the user last set, is started again, then after its
\* mount effect the registry's enabled and async flags are those flags.
C21_ToolFlagsRestored ==
    [][ (WidgetMount /\ lastStep.kind = "restart" /\ availableTools # << >>)
        => /\ ENABLED_TOOLS' = ToolsObject(availableTools, "enabled")
           /\ toolAsyncSettings' = ToolsObject(availableTools, "async")
      ]_vars

\* C22: while the microphone is muted the widget sends no audio frame, and
\* the mute button changes the mute state only while the widget is
\* connected: pressed while disconnected it neither mutes nor starts a
\* connection, and the microphone becomes muted by no other step. The mute
\* state and the ref the processor reads always agree.
C22_MutedSendsNoAudio ==
    /\ [](isMutedRef = isMicMuted)
    /\ [][ /\ (OnAudioProcess /\ isMicMuted)
               => lastStep'.kind # "audio_sent"
           /\ lastStep'.kind = "audio_sent" => ~isMicMuted'
           /\ (HandleMuteToggle /\ ~isConnected)
               => UNCHANGED << isMicMuted, isMutedRef, isConnected, wsRef,
                               processorRef >>
           /\ (isMicMuted' /\ ~isMicMuted)
               => (HandleMuteToggle /\ isConnected) ]_vars

\* C22 witness: in a call with the microphone capturing and the socket
\* open, the microphone is muted and a chunk of audio was dropped.
C22_Witness ==
    /\ lastStep.kind = "audio_muted"
    /\ isMicMuted
    /\ isConnected
    /\ wsRef = "open"
    /\ processorRef = "capturing"

(***************************************************************************)
(* Properties of overlapping modality switches, checked under Spec.        *)
(***************************************************************************)
\* Every connect that was started has resolved, and a set_modality frame with
\* a documented modality was accepted while an earlier switch was running.
OverlappingSwitchesDone ==
    /\ \A i \in Tasks : pc[i] \in {"idle", "done"}
    /\ \A i \in SwitchTasks :
          pc[i] # "idle" => requested[i] \in {"AUDIO", "TEXT"}
    /\ \E i \in SwitchTasks : pc[i] # "idle" /\ oldModality[i] = "SWITCHING"

\* C23 as claimed: when a set_modality frame arrived in state SWITCHING, then
\* once all upstream connects have completed the modality state is the
\* modality requested most recently and the upstream handle is the open
\* session of that request.
C23_LastRequestWins ==
    OverlappingSwitchesDone
    => /\ currentModality = requested[NewestTask]
       /\ geminiWs = NewestTask
       /\ geminiWs \in sessOpen

\* The step sends a modality_changed frame to the client.
SendsModalityChanged == Contains(lastStep'.payload.toClient, "modality_changed")

\* C24 as claimed: whenever the server sends modality_changed with modality M
\* to the client, the upstream session for M has been opened and the
\* modality state is M; the frame is not sent while the state is SWITCHING,
\* and a switch whose frame was sent does not fail and fall back afterwards.
C24_NotifiedAfterSwitch ==
    [][ \A i \in SwitchTasks :
          /\ (Timer300(i) /\ SendsModalityChanged)
               => /\ i \in sessOpen'
                  /\ currentModality' = requested[i]
                  /\ currentModality' # "SWITCHING"
          /\ (pc[i] \in {"close500", "import", "connect"})
               => pc'[i] # "failed" ]_vars

(***************************************************************************)
(* Properties of the close of the client's socket, checked under SpecClose.*)
(***************************************************************************)
\* C25 as claimed: after the client's socket has closed, every upstream
\* session opened for that client is closed in the end, also when the close
\* came while a connect was in progress: once the socket is closed and no
\* connect or timer of the connection is still running, no upstream session
\* is open.
C25_NoSessionOutlivesClient ==
    (clientWs = "closed"
       /\ \A i \in Tasks : pc[i] \in {"idle", "done", "failed"})
    => sessOpen = {}

(***************************************************************************)
(* Properties of the update endpoint, checked under SpecUpdate.            *)
(***************************************************************************)
\* C26 as claimed: a request to POST /api/tools/update that is answered with
\* an error leaves the enabled flags, the tool order, the async settings and
\* the system prompt exactly as they were before the request.
C26_UpdateAllOrNothing ==
    [][ lastStep'.kind = "tools_update_error"
        => UNCHANGED << ENABLED_TOOLS, toolOrder, toolAsyncSettings,
                        SYSTEM_PROMPT >> ]_vars

\* The ids getAllTools lists, in listing order.
ListedIds == [index \in 1..Len(getAllTools) |-> getAllTools[index].id]

\* C29 as claimed: after any sequence of accepted order updates, getAllTools
\* lists every registered tool exactly once, with the order indices
\* 0..n-1 in listing order.
C29_EveryToolListedOnce ==
    /\ \A t \in DOMAIN ENABLED_TOOLS :
          Cardinality({index \in 1..Len(ListedIds) : ListedIds[index] = t}) = 1
    /\ Len(getAllTools) = Cardinality(DOMAIN ENABLED_TOOLS)
    /\ \A index \in 1..Len(getAllTools) :
          getAllTools[index].order = index - 1

(***************************************************************************)
(* Properties of mails that do not ask for the screenshot, checked under   *)
(* SpecExec.                                                               *)
(***************************************************************************)
\* The values of fileBase64 that ask for the cached screenshot.
Placeholders == {"use_last_screenshot", "base64_encoded_screenshot_data"}

\* C27 as claimed: a send_email call without fileBase64, or with a file of
\* its own, neither attaches the cached screenshot nor clears the cache;
\* the cached screenshot is attached only to a mail whose call gave a
\* placeholder, and the cache is emptied only by such a call succeeding.
C27_ScreenshotOnlyWhenAskedFor ==
    [][ /\ \A args \in MailArgs :
              (args.fileBase64 \notin Placeholders
                 /\ Executes("send_email_to_shubharthak", args))
              => /\ lastStep'.payload.attachment # "screenshot"
                 /\ lastScreenshotData' = lastScreenshotData
        /\ (lastScreenshotData # "null" /\ lastScreenshotData' = "null")
              => \E args \in MailArgs :
                    /\ args.fileBase64 \in Placeholders
                    /\ Executes("send_email_to_shubharthak", args)
                    /\ lastStep'.result.success ]_vars

(***************************************************************************)
(* Properties of failed store_memory calls, checked under SpecMemory.      *)
(***************************************************************************)
\* C28 as claimed: a store_memory call that returns success=false leaves the
\* memory store and the memory file unchanged, so that a retrieve_memories
\* call made after it returns, for every query, what it would have returned
\* before it.
C28_FailedStoreChangesNothing ==
    [][ \A args \in StoreArgs :
          (Executes("store_memory", args) /\ ~lastStep'.result.success)
          => /\ UNCHANGED << memoryStore, memoryFile >>
             /\ \A q \in QueryArgs :
                   /\ RetrieveThrows(q.query)' = RetrieveThrows(q.query)
                   /\ RetrieveResults(q.query)' = RetrieveResults(q.query)
      ]_vars

(***************************************************************************)
(* Properties of the window, checked under SpecWindow.                     *)
(***************************************************************************)
\* C30 as claimed: for any sequence of dropdown open and close events from
\* mount on, once the pending timers have fired the main window has the
\* expanded height exactly when some dropdown is open, and whenever it has
\* the normal height after an expansion its vertical position is the one it
\* had before the first expansion.
C30_WindowFollowsDropdowns ==
    (mainWindow.created /\ collapseTimers = 0)
    => /\ (mainWindow.height = expandedHeight) = AnyDropdownOpen(showDropdown)
       /\ mainWindow.height \in {normalHeight, expandedHeight}
       /\ (mainWindow.height = normalHeight
             /\ mainWindow.everExpanded)
            => mainWindow.y = mainWindow.expandedFrom

====
